---- MODULE Spec2Model ----
(***************************************************************************)
(* The crawl engine of scraper_tool/scraper.py: class Scraper, its URL     *)
(* normalisation, its scope filter and the loop of crawl().                *)
(*                                                                         *)
(* A URL string is a sequence of tokens.  The tokens "/" and "#" are the   *)
(* characters '/' and '#'; every other token is a maximal run of           *)
(* characters holding none of '/', '#', '?'.  str.split('#') and           *)
(* str.rstrip('/') act on the token sequence exactly as on the string.     *)
(***************************************************************************)
EXTENDS Integers, Sequences, FiniteSets, TLC

VARIABLES
  start_url,         \* Scraper.start_url
  base_domain,       \* Scraper.base_domain
  queue,             \* Scraper.queue: raw URLs, FIFO
  seen_urls,         \* Scraper.seen_urls: normalized keys ever enqueued
  visited,           \* Scraper.visited: normalized keys popped for processing
  markdown_content,  \* Scraper.markdown_content: one entry per appended page
  pc,                \* position of crawl()
  url,               \* the local `url` of the loop body (<<>> outside it)
  soup,              \* the local `soup` of the loop body (NoSoup outside it)
  main_content,      \* the local `main_content`: the region's tag, or "none"
  console,           \* what console.print has emitted, in order
  output_file,       \* the writes made to output_file, in order
  processed,         \* history: raw URLs that passed line 68, in order
  enqueued,          \* history: the raw URLs put in the queue, in order
  arg,               \* the argument of a helper called on its own
  ret                \* what that call returned

vars == << start_url, base_domain, queue, seen_urls, visited, markdown_content,
           pc, url, soup, main_content, console, output_file, processed, enqueued,
           arg, ret >>

-----------------------------------------------------------------------------
(* Bounds and the environment: the URLs the site serves and links to.      *)

MaxLinks == 2

Host == "docs.example.com"
Prefix == << "https:", "/", "/", Host >>

Intro == Prefix \o << "/", "intro" >>
Advanced == Prefix \o << "/", "advanced" >>
Api == Prefix \o << "/", "api" >>
Guide == Prefix \o << "/", "guide" >>

\* the same pages, written with a trailing slash and/or a fragment
IntroTop == Intro \o << "/", "#", "top" >>
AdvancedFrag == Advanced \o << "#", "frag" >>
ApiSlash == Api \o << "/" >>

\* a page of another host, and a target urlparse() rejects (ValueError:
\* "Invalid IPv6 URL": a '[' in the netloc without ']')
Other == << "https:", "/", "/", "other.example.com", "/", "x" >>
Broken == << "https:", "/", "/", "[" >>

Seeds == { Intro }
Hrefs == { IntroTop, Advanced, AdvancedFrag, ApiSlash, Guide, Other, Broken }

-----------------------------------------------------------------------------
(* Pure helpers.                                                           *)

split_hash_last(s) ==
  LET hashes == { i \in 1..Len(s) : s[i] = "#" }
  IN IF hashes = { } THEN s
     ELSE SubSeq(s, 1, (CHOOSE i \in hashes : \A j \in hashes : j <= i) - 1)

\* url.split('#')[0]
RECURSIVE split_hash_0(_)
split_hash_0(s) ==
  IF s = << >> THEN << >>
  ELSE IF Head(s) = "#" THEN << >>
  ELSE << Head(s) >> \o split_hash_0(Tail(s))

rstrip_one_slash(s) ==
  IF s # << >> /\ s[Len(s)] = "/" THEN SubSeq(s, 1, Len(s) - 1) ELSE s

\* s.rstrip('/')
RECURSIVE rstrip_slash(_)
rstrip_slash(s) ==
  IF s = << >> THEN << >>
  ELSE IF s[Len(s)] = "/" THEN rstrip_slash(SubSeq(s, 1, Len(s) - 1))
  ELSE s

\* a mutant of normalize_url: the fragment is kept
normalize_url_keeps_fragment(u) == rstrip_slash(u)

normalize_url(u) == rstrip_slash(split_hash_0(u))

\* the tokens of s up to the first "/" or "#"
RECURSIVE up_to_delimiter(_)
up_to_delimiter(s) ==
  IF s = << >> THEN << >>
  ELSE IF Head(s) \in { "/", "#" } THEN << >>
  ELSE << Head(s) >> \o up_to_delimiter(Tail(s))

\* urlparse(u).netloc for a URL with a scheme: what follows "scheme://"
netloc(u) ==
  IF Len(u) >= 3 /\ u[2] = "/" /\ u[3] = "/"
  THEN up_to_delimiter(SubSeq(u, 4, Len(u)))
  ELSE << >>

\* urlparse(u) raises ValueError
urlparse_raises(u) == \E i \in 1..Len(netloc(u)) : netloc(u)[i] = "["

\* urljoin(base, href) for an href that is absolute (has the base's scheme
\* and a netloc): the href re-assembled from its parts, which drops an
\* empty fragment
urljoin(base, href) ==
  IF href # << >> /\ href[Len(href)] = "#"
  THEN SubSeq(href, 1, Len(href) - 1)
  ELSE href

-----------------------------------------------------------------------------
(* The rendered document.  Only what crawl() reads of it is kept: which of *)
(* the elements main, article and body it has (nested body > article >     *)
(* main), and its anchors with an href in document order, each with the    *)
(* innermost of those elements that holds it ("root": none) and whether it *)
(* lies in a script/style/nav/footer subtree placed directly inside that   *)
(* element.                                                                *)

Depth(tag) ==
  CASE tag = "root" -> 0
    [] tag = "body" -> 1
    [] tag = "article" -> 2
    [] tag = "main" -> 3

\* where a layout puts the first anchor and the anchors after it
Layouts ==
  { [ tags |-> { },
      first |-> [ in |-> "root", noise |-> FALSE ],
      rest |-> [ in |-> "root", noise |-> TRUE ] ],
    [ tags |-> { "body" },
      first |-> [ in |-> "body", noise |-> TRUE ],
      rest |-> [ in |-> "body", noise |-> FALSE ] ],
    [ tags |-> { "body", "main" },
      first |-> [ in |-> "body", noise |-> TRUE ],
      rest |-> [ in |-> "main", noise |-> FALSE ] ],
    [ tags |-> { "body", "article" },
      first |-> [ in |-> "article", noise |-> FALSE ],
      rest |-> [ in |-> "body", noise |-> FALSE ] ],
    [ tags |-> { "body", "article", "main" },
      first |-> [ in |-> "main", noise |-> TRUE ],
      rest |-> [ in |-> "article", noise |-> FALSE ] ] }

HrefLists == UNION { [ 1..n -> Hrefs ] : n \in 0..MaxLinks }

Document(layout, hrefs) ==
  [ tags |-> layout.tags,
    anchors |-> [ i \in 1..Len(hrefs) |->
                    [ href |-> hrefs[i],
                      in |-> IF i = 1 THEN layout.first.in ELSE layout.rest.in,
                      noise |-> IF i = 1 THEN layout.first.noise
                                ELSE layout.rest.noise ] ] ]

\* what page.content() may return, parsed
Documents == { Document(l, h) : l \in Layouts, h \in HrefLists }

\* the documents that have a main, an article or a body
RegionDocuments == { d \in Documents : d.tags # { } }

NoSoup == [ tags |-> { }, anchors |-> << >> ]

\* soup.find('main') or soup.find('article') or soup.find('body')
select_region_body_first(doc) ==
  IF "body" \in doc.tags THEN "body"
  ELSE IF "article" \in doc.tags THEN "article"
  ELSE IF "main" \in doc.tags THEN "main"
  ELSE "none"

select_region(doc) ==
  IF "main" \in doc.tags THEN "main"
  ELSE IF "article" \in doc.tags THEN "article"
  ELSE IF "body" \in doc.tags THEN "body"
  ELSE "none"

\* the anchor lies in the subtree of the selected region
in_region(a, region) == region # "none" /\ Depth(a.in) >= Depth(region)

\* the anchor is removed by tag.decompose() on the region's noise subtrees
decomposed(a, region) == in_region(a, region) /\ a.noise

RECURSIVE without_noise(_, _)
without_noise(s, region) ==
  IF s = << >> THEN << >>
  ELSE IF decomposed(Head(s), region) THEN without_noise(Tail(s), region)
  ELSE << Head(s) >> \o without_noise(Tail(s), region)

\* the tree after lines 79-89: the region's noise subtrees are gone and the
\* region's anchors carry urljoin(url, href)
cleaned(doc, page) ==
  LET region == select_region(doc)
      left == without_noise(doc.anchors, region)
  IN [ tags |-> doc.tags,
       anchors |-> [ i \in 1..Len(left) |->
                       IF in_region(left[i], region)
                       THEN [ left[i] EXCEPT !.href = urljoin(page, @) ]
                       ELSE left[i] ] ]

\* urljoin at line 87 raises for some anchor left in the region
rewrite_raises(doc) ==
  LET region == select_region(doc)
  IN \E i \in 1..Len(doc.anchors) :
       /\ in_region(doc.anchors[i], region)
       /\ ~ decomposed(doc.anchors[i], region)
       /\ urlparse_raises(doc.anchors[i].href)

\* soup.find_all('a', href=True): the hrefs of the anchors in the tree
find_all_a(doc) == [ i \in 1..Len(doc.anchors) |-> doc.anchors[i].href ]

-----------------------------------------------------------------------------
(* Scraper                                                                 *)

\* a mutant of is_valid_url: the path-prefix test of line 41 is enforced
is_valid_url_under_start(u) ==
  /\ netloc(u) = base_domain
  /\ Len(u) >= Len(start_url)
  /\ SubSeq(u, 1, Len(start_url)) = start_url

is_valid_url(u) ==
  IF netloc(u) # base_domain THEN FALSE
  ELSE TRUE

\* a mutant of should_enqueue: only visited is consulted
should_enqueue_ignores_seen(full_url, normalized_full, seen) ==
  /\ is_valid_url(full_url)
  /\ normalized_full \notin visited

\* the test of lines 105-107, with seen the value of seen_urls so far
should_enqueue(full_url, normalized_full, seen) ==
  /\ is_valid_url(full_url)
  /\ normalized_full \notin visited
  /\ normalized_full \notin seen

\* the for loop of lines 100-110 over the hrefs from position i on; acc is
\* [queue, seen_urls, enqueued, raised]; an href urljoin rejects ends it
RECURSIVE find_links(_, _, _)
find_links(hrefs, i, acc) ==
  IF i > Len(hrefs) THEN acc
  ELSE IF urlparse_raises(hrefs[i]) THEN [ acc EXCEPT !.raised = TRUE ]
  ELSE LET full_url == urljoin(url, hrefs[i])
           normalized_full == normalize_url(full_url)
       IN IF should_enqueue(full_url, normalized_full, acc.seen_urls)
          THEN find_links(hrefs, i + 1,
                 [ acc EXCEPT !.seen_urls = @ \cup { normalized_full },
                              !.queue = Append(@, full_url),
                              !.enqueued = Append(@, full_url) ])
          ELSE find_links(hrefs, i + 1, acc)

\* the block of line 97 for a page: its title, URL line and markdown body are
\* functions of the page, so the block is identified by the page's URL
PageDocument(u) == [ url |-> u ]

Error(u, step) == [ kind |-> "error", url |-> u, step |-> step ]

\* a mutant of Init: line 22 is missing
InitSeedUnseen ==
  /\ arg = << >>
  /\ ret = << >>
  /\ start_url \in Seeds
  /\ base_domain = netloc(start_url)
  /\ visited = { }
  /\ seen_urls = { }
  /\ queue = << start_url >>
  /\ markdown_content = << >>
  /\ pc = "start"
  /\ url = << >>
  /\ soup = NoSoup
  /\ main_content = "none"
  /\ console = << >>
  /\ output_file = << >>
  /\ processed = << >>
  /\ enqueued = << start_url >>

\* __init__
Init ==
  /\ arg = << >>
  /\ ret = << >>
  /\ start_url \in Seeds
  /\ base_domain = netloc(start_url)
  /\ visited = { }
  /\ seen_urls = { normalize_url(start_url) }
  /\ queue = << start_url >>
  /\ markdown_content = << >>
  /\ pc = "start"
  /\ url = << >>
  /\ soup = NoSoup
  /\ main_content = "none"
  /\ console = << >>
  /\ output_file = << >>
  /\ processed = << >>
  /\ enqueued = << start_url >>

LaunchFailureWrites ==
  /\ UNCHANGED << arg, ret >>
  /\ pc = "start"
  /\ \E ok \in BOOLEAN :
       IF ok THEN pc' = "loop" /\ UNCHANGED output_file
       ELSE /\ pc' = "aborted"
            /\ output_file' = Append(output_file, << >>)
  /\ UNCHANGED << start_url, base_domain, queue, seen_urls, visited,
                  markdown_content, url, soup, main_content, console,
                  processed, enqueued >>

\* lines 53-59: the browser starts, or async_playwright / launch /
\* new_context / new_page raises and crawl() is left
Launch ==
  /\ UNCHANGED << arg, ret >>
  /\ pc = "start"
  /\ \E ok \in BOOLEAN : pc' = IF ok THEN "loop" ELSE "aborted"
  /\ UNCHANGED << start_url, base_domain, queue, seen_urls, visited,
                  markdown_content, url, soup, main_content, console,
                  output_file, processed, enqueued >>

\* a mutant of Pop: queue.pop() takes the newest URL
PopNewest ==
  /\ UNCHANGED << arg, ret >>
  /\ pc = "loop"
  /\ queue # << >>
  /\ LET u == queue[Len(queue)]
         normalized_url == normalize_url(u)
     IN /\ queue' = SubSeq(queue, 1, Len(queue) - 1)
        /\ IF normalized_url \in visited
           THEN UNCHANGED << visited, processed, url, pc >>
           ELSE /\ visited' = visited \cup { normalized_url }
                /\ processed' = Append(processed, u)
                /\ url' = u
                /\ pc' = "goto"
  /\ UNCHANGED << start_url, base_domain, seen_urls, markdown_content, soup,
                  main_content, console, output_file, enqueued >>

\* a mutant of Pop: line 68 is missing, the key is not marked
PopUnmarked ==
  /\ UNCHANGED << arg, ret >>
  /\ pc = "loop"
  /\ queue # << >>
  /\ LET u == Head(queue)
         normalized_url == normalize_url(u)
     IN /\ queue' = Tail(queue)
        /\ IF normalized_url \in visited
           THEN UNCHANGED << processed, url, pc >>
           ELSE /\ processed' = Append(processed, u)
                /\ url' = u
                /\ pc' = "goto"
  /\ UNCHANGED << start_url, base_domain, seen_urls, visited, markdown_content,
                  soup, main_content, console, output_file, enqueued >>

\* lines 61-69: one URL leaves the queue
Pop ==
  /\ UNCHANGED << arg, ret >>
  /\ pc = "loop"
  /\ queue # << >>
  /\ LET u == Head(queue)
         normalized_url == normalize_url(u)
     IN /\ queue' = Tail(queue)
        /\ IF normalized_url \in visited
           THEN UNCHANGED << visited, processed, url, pc >>
           ELSE /\ visited' = visited \cup { normalized_url }
                /\ processed' = Append(processed, u)
                /\ url' = u
                /\ pc' = "goto"
  /\ UNCHANGED << start_url, base_domain, seen_urls, markdown_content, soup,
                  main_content, console, output_file, enqueued >>

\* a mutant of Render: a page that failed to render is queued again
RenderRetries(documents) ==
  /\ UNCHANGED << arg, ret >>
  /\ pc = "goto"
  /\ \/ \E doc \in documents :
          /\ soup' = doc
          /\ pc' = "parse"
          /\ UNCHANGED << url, console, queue >>
     \/ /\ console' = Append(console, Error(url, "render"))
        /\ queue' = Append(queue, url)
        /\ pc' = "loop"
        /\ url' = << >>
        /\ UNCHANGED soup
  /\ UNCHANGED << start_url, base_domain, seen_urls, visited,
                  markdown_content, main_content, output_file, processed,
                  enqueued >>

\* a mutant of Render: the handler of lines 112-113 is missing, the error
\* leaves crawl()
RenderUncaught(documents) ==
  /\ UNCHANGED << arg, ret >>
  /\ pc = "goto"
  /\ \/ \E doc \in documents :
          /\ soup' = doc
          /\ pc' = "parse"
          /\ UNCHANGED url
     \/ /\ pc' = "aborted"
        /\ url' = << >>
        /\ UNCHANGED soup
  /\ UNCHANGED << start_url, base_domain, queue, seen_urls, visited,
                  markdown_content, main_content, console, output_file,
                  processed, enqueued >>

\* lines 72-74 and 112-113: the page is rendered and parsed, or page.goto /
\* page.content raises and the handler reports it
Render(documents) ==
  /\ UNCHANGED << arg, ret >>
  /\ pc = "goto"
  /\ \/ \E doc \in documents :
          /\ soup' = doc
          /\ pc' = "parse"
          /\ UNCHANGED << url, console >>
     \/ /\ console' = Append(console, Error(url, "render"))
        /\ pc' = "loop"
        /\ url' = << >>
        /\ UNCHANGED soup
  /\ UNCHANGED << start_url, base_domain, queue, seen_urls, visited,
                  markdown_content, main_content, output_file, processed,
                  enqueued >>

Goto == Render(RegionDocuments)

\* lines 77-97 and 112-113: region, noise removal, link rewriting, markdown
\* conversion and the append; converts says whether md() returns
Extract ==
  /\ UNCHANGED << arg, ret >>
  /\ pc = "parse"
  /\ \E converts \in BOOLEAN :
       LET region == select_region(soup)
       IN IF region # "none" /\ (rewrite_raises(soup) \/ ~ converts)
          THEN /\ console' = Append(console, Error(url, "extract"))
               /\ pc' = "loop"
               /\ url' = << >>
               /\ soup' = NoSoup
               /\ main_content' = "none"
               /\ UNCHANGED markdown_content
          ELSE /\ markdown_content' =
                    IF region # "none"
                    THEN Append(markdown_content, PageDocument(url))
                    ELSE markdown_content
               /\ soup' = cleaned(soup, url)
               /\ main_content' = region
               /\ pc' = "links"
               /\ UNCHANGED << url, console >>
  /\ UNCHANGED << start_url, base_domain, queue, seen_urls, visited,
                  output_file, processed, enqueued >>

\* lines 100-113: the links of the tree are pushed
FindLinks ==
  /\ UNCHANGED << arg, ret >>
  /\ pc = "links"
  /\ LET r == find_links(find_all_a(soup), 1,
                         [ queue |-> queue, seen_urls |-> seen_urls,
                           enqueued |-> enqueued, raised |-> FALSE ])
     IN /\ queue' = r.queue
        /\ seen_urls' = r.seen_urls
        /\ enqueued' = r.enqueued
        /\ console' = IF r.raised THEN Append(console, Error(url, "links"))
                      ELSE console
  /\ pc' = "loop"
  /\ url' = << >>
  /\ soup' = NoSoup
  /\ main_content' = "none"
  /\ UNCHANGED << start_url, base_domain, visited, markdown_content,
                  output_file, processed >>

FinishCountsDocuments ==
  /\ UNCHANGED << arg, ret >>
  /\ pc = "loop"
  /\ queue = << >>
  /\ output_file' = Append(output_file,
                           [ j \in 1..Len(markdown_content) |->
                               [ kind |-> "block", of |-> markdown_content[j] ] ])
  /\ console' = console \o << [ kind |-> "complete" ],
                              [ kind |-> "total", n |-> Len(markdown_content) ] >>
  /\ pc' = "done"
  /\ UNCHANGED << start_url, base_domain, queue, seen_urls, visited,
                  markdown_content, url, soup, main_content, processed,
                  enqueued >>

\* "\n".join(blocks) at line 119: the blocks with a newline between
\* neighbours
RECURSIVE join_newline(_)
join_newline(blocks) ==
  IF blocks = << >> THEN << >>
  ELSE IF Len(blocks) = 1 THEN << [ kind |-> "block", of |-> Head(blocks) ] >>
  ELSE << [ kind |-> "block", of |-> Head(blocks) ], [ kind |-> "\n" ] >>
         \o join_newline(Tail(blocks))

FinishSkipsFirst ==
  /\ UNCHANGED << arg, ret >>
  /\ pc = "loop"
  /\ queue = << >>
  /\ output_file' = Append(output_file,
                           IF markdown_content = << >> THEN << >>
                           ELSE join_newline(Tail(markdown_content)))
  /\ console' = console \o << [ kind |-> "complete" ],
                              [ kind |-> "total", n |-> Cardinality(visited) ] >>
  /\ pc' = "done"
  /\ UNCHANGED << start_url, base_domain, queue, seen_urls, visited,
                  markdown_content, url, soup, main_content, processed,
                  enqueued >>

\* lines 61 and 115-122: the queue is empty, the file is written
Finish ==
  /\ UNCHANGED << arg, ret >>
  /\ pc = "loop"
  /\ queue = << >>
  /\ output_file' = Append(output_file, join_newline(markdown_content))
  /\ console' = console \o << [ kind |-> "complete" ],
                              [ kind |-> "total", n |-> Cardinality(visited) ] >>
  /\ pc' = "done"
  /\ UNCHANGED << start_url, base_domain, queue, seen_urls, visited,
                  markdown_content, url, soup, main_content, processed,
                  enqueued >>

Next == Launch \/ Pop \/ Goto \/ Extract \/ FindLinks \/ Finish

Spec == Init /\ [][Next]_vars

\* crawl() is one coroutine run to completion by asyncio.run: a step that
\* can be taken is taken
FairSpec == Spec /\ WF_vars(Next)

\* The same crawl when a rendered document may also have no main, article
\* or body.
GotoAny == Render(Documents)

NextAny == Launch \/ Pop \/ GotoAny \/ Extract \/ FindLinks \/ Finish

SpecAny == Init /\ [][NextAny]_vars

-----------------------------------------------------------------------------
(* The helpers called on their own: normalize_url, and the clean-up of the *)
(* converted markup at line 95.                                            *)

MaxUrlLen == 4
MaxTextLen == 7

\* the strings of at most n characters over an alphabet
Strings(alphabet, n) == UNION { [ 1..k -> alphabet ] : k \in 0..n }

\* "a" stands for a character that is neither '/' nor '#'
UrlChars == { "a", "/", "#" }

NormalizedExample == << "https:", "/", "/", "a", "/", "b" >>
NormalizeExamples == { NormalizedExample,
                       NormalizedExample \o << "/" >>,
                       NormalizedExample \o << "#", "frag" >> }
UrlStrings == Strings(UrlChars, MaxUrlLen) \cup NormalizeExamples

\* "x" stands for a character that is not a line break
TextChars == { "x", "\n" }
Texts == Strings(TextChars, MaxTextLen)

\* the scraper as constructed by lines 16-29, crawl() not called
Constructed ==
  /\ start_url \in Seeds
  /\ base_domain = netloc(start_url)
  /\ visited = { }
  /\ seen_urls = { normalize_url(start_url) }
  /\ queue = << start_url >>
  /\ markdown_content = << >>
  /\ url = << >>
  /\ soup = NoSoup
  /\ main_content = "none"
  /\ console = << >>
  /\ output_file = << >>
  /\ processed = << >>
  /\ enqueued = << start_url >>

crawl_state == << start_url, base_domain, queue, seen_urls, visited,
                 markdown_content, url, soup, main_content, console,
                 output_file, processed, enqueued >>

NormalizeInit ==
  /\ Constructed
  /\ pc = "call"
  /\ arg \in UrlStrings
  /\ ret = << >>

\* normalize_url(arg)
NormalizeCall ==
  /\ pc = "call"
  /\ ret' = normalize_url(arg)
  /\ pc' = "return"
  /\ UNCHANGED << arg, crawl_state >>

\* normalize_url(ret): the call repeated on the key it returned
NormalizeAgain ==
  /\ pc = "return"
  /\ arg' = ret
  /\ ret' = normalize_url(ret)
  /\ pc' = "again"
  /\ UNCHANGED crawl_state

NormalizeNext == NormalizeCall \/ NormalizeAgain

NormalizeSpec == NormalizeInit /\ [][NormalizeNext]_vars

\* the length of the run of the character c that s starts with
LeadingRun(s, c) ==
  CHOOSE n \in 0..Len(s) :
    /\ \A i \in 1..n : s[i] = c
    /\ n = Len(s) \/ s[n + 1] # c

sub_newlines_to_one(s) ==
  LET runs == { i \in 1..Len(s) :
                  /\ i + 2 <= Len(s)
                  /\ \A j \in i..(i + 2) : s[j] = "\n"
                  /\ i = 1 \/ s[i - 1] # "\n" }
      inRun(i) == \E r \in runs : r < i /\ \A j \in r..i : s[j] = "\n"
      keep == { i \in 1..Len(s) : ~ inRun(i) }
      nth(k) == CHOOSE i \in keep : Cardinality({ j \in keep : j <= i }) = k
  IN [ k \in 1..Cardinality(keep) |-> s[nth(k)] ]

\* re.sub(r'\n{3,}', '\n\n', s): every maximal run of three or more line
\* breaks is replaced by two
RECURSIVE sub_newlines(_)
sub_newlines(s) ==
  IF s = << >> THEN << >>
  ELSE IF Head(s) = "\n"
  THEN LET n == LeadingRun(s, "\n")
       IN (IF n >= 3 THEN << "\n", "\n" >> ELSE SubSeq(s, 1, n))
            \o sub_newlines(SubSeq(s, n + 1, Len(s)))
  ELSE << Head(s) >> \o sub_newlines(Tail(s))

\* s.strip(), of which the model has the line breaks
strip(s) ==
  LET text == { i \in 1..Len(s) : s[i] # "\n" }
  IN IF text = { } THEN << >>
     ELSE SubSeq(s, CHOOSE i \in text : \A j \in text : i <= j,
                    CHOOSE i \in text : \A j \in text : j <= i)

CleanInit ==
  /\ Constructed
  /\ pc = "call"
  /\ arg \in Texts
  /\ ret = << >>

\* line 95, first half: re.sub on the converted markup
SubNewlines ==
  /\ pc = "call"
  /\ ret' = sub_newlines(arg)
  /\ pc' = "return"
  /\ UNCHANGED << arg, crawl_state >>

\* line 95, second half: .strip() on what re.sub returned
Strip ==
  /\ pc = "return"
  /\ ret' = strip(ret)
  /\ pc' = "stripped"
  /\ UNCHANGED << arg, crawl_state >>

CleanNext == SubNewlines \/ Strip

CleanSpec == CleanInit /\ [][CleanNext]_vars

-----------------------------------------------------------------------------
(* Properties                                                              *)

Range(s) == { s[i] : i \in 1..Len(s) }

\* The pages of the site, and the spellings of a page: the URLs that differ
\* from it only by a fragment or by a trailing slash.
Pages == { Intro, Advanced, Api, Guide, Other }
Spellings(p) == { p, p \o << "/" >>, p \o << "#", "top" >>, p \o << "#", "frag" >>,
                  p \o << "/", "#", "top" >>, p \o << "/", "#", "frag" >> }
PageOf(u) == CHOOSE p \in Pages : u \in Spellings(p)

\* the error reports on the console
Errors == { i \in 1..Len(console) : console[i].kind = "error" }

\* the hrefs as line 102 resolves them against the page
Resolved(hrefs) == [ i \in 1..Len(hrefs) |-> urljoin(url, hrefs[i]) ]

\* the URLs the link loop appended in this step
Pushed == SubSeq(queue', Len(queue) + 1, Len(queue'))

\* s can be obtained from t by deleting elements
RECURSIVE IsSubsequence(_, _)
IsSubsequence(s, t) ==
  IF s = << >> THEN TRUE
  ELSE IF t = << >> THEN FALSE
  ELSE IF Head(s) = Head(t) THEN IsSubsequence(Tail(s), Tail(t))
  ELSE IsSubsequence(s, Tail(t))

\* C1: no page is taken from the queue and processed more than once in a
\* run, whatever spellings (fragment, trailing slash) its links use.
C1_ProcessedOnce ==
  \A i, j \in 1..Len(processed) :
    i # j => PageOf(processed[i]) # PageOf(processed[j])

\* a page processed earlier is found again under other spellings
C1_Witness ==
  /\ pc = "links"
  /\ Advanced \in Range(processed)
  /\ find_all_a(soup) = << AdvancedFrag, IntroTop >>

\* C2: every URL in the queue has its normalized key in seen_urls and not
\* in visited.
C2_QueueSeenNotVisited ==
  \A i \in 1..Len(queue) :
    /\ normalize_url(queue[i]) \in seen_urls
    /\ normalize_url(queue[i]) \notin visited

\* two URLs wait in the queue while others are visited
C2_Witness ==
  /\ Len(queue) = 2
  /\ Cardinality(visited) = 2
  /\ queue[1] # normalize_url(queue[1])

\* C3: visited is a subset of seen_urls, and no step removes a key from
\* visited.
C3_VisitedSubsetGrows ==
  /\ [](visited \subseteq seen_urls)
  /\ [][visited \subseteq visited']_vars

\* three keys are visited and one more is seen
C3_Witness ==
  /\ Cardinality(visited) = 3
  /\ Cardinality(seen_urls) = 4

\* C4: pages are processed in the order they were first enqueued; a page is
\* enqueued only while its parent is the page being processed, after
\* everything queued before, in the order of the parent's link list; when
\* the pages were enqueued as S, A, B, C they are processed as S, A, B, C.
C4_BreadthFirst ==
  /\ [](processed \o queue = enqueued)
  /\ [][pc = "links" =>
          /\ queue' = queue \o Pushed
          /\ IsSubsequence(Pushed, Resolved(find_all_a(soup)))
          /\ Pushed # << >> => processed[Len(processed)] = url]_vars
  /\ [](pc = "done" /\ enqueued = << Intro, Advanced, ApiSlash, Guide >>
          => processed = << Intro, Advanced, ApiSlash, Guide >>)

\* S links to A then B and A links to C: C is found while B waits
C4_Witness ==
  /\ pc = "links"
  /\ processed = << Intro, Advanced >>
  /\ queue = << ApiSlash >>
  /\ find_all_a(soup) = << Guide >>

\* C5: a page whose render fails gets no PageDocument, adds nothing to the
\* queue or to seen_urls, is in visited, is not attempted again and is
\* reported at most once.
C5_RenderFailure ==
  /\ [][pc = "goto" /\ pc' = "loop" =>
          /\ markdown_content' = markdown_content
          /\ queue' = queue
          /\ seen_urls' = seen_urls
          /\ normalize_url(url) \in visited'
          /\ console' = Append(console, Error(url, "render"))]_vars
  /\ [](\A e \in Errors :
          console[e].step = "render" =>
            /\ \A i \in 1..Len(markdown_content) :
                 PageOf(markdown_content[i].url) # PageOf(console[e].url)
            /\ normalize_url(console[e].url) \in visited
            /\ \A i \in 1..Len(queue) :
                 PageOf(queue[i]) # PageOf(console[e].url)
            /\ Cardinality({ i \in 1..Len(processed) :
                 PageOf(processed[i]) = PageOf(console[e].url) }) = 1
            /\ Cardinality({ i \in Errors :
                 PageOf(console[i].url) = PageOf(console[e].url) }) = 1)

\* a page failed to render, the crawl went on and met a link to it again
C5_Witness ==
  /\ pc = "links"
  /\ \E e \in Errors : console[e] = Error(Advanced, "render")
  /\ AdvancedFrag \in Range(find_all_a(soup))

\* the links the loop of lines 100-110 reaches: those before the first
\* href that urljoin rejects
RECURSIVE Examined(_)
Examined(hrefs) ==
  IF hrefs = << >> THEN << >>
  ELSE IF urlparse_raises(Head(hrefs)) THEN << >>
  ELSE << urljoin(url, Head(hrefs)) >> \o Examined(Tail(hrefs))

\* the host of a URL of the form https://host/...
HostOf(u) == u[4]

\* C6: if any step of a page's processing fails (render, extraction,
\* conversion, link pushing), a failure is reported and markdown_content
\* holds no PageDocument for the page.
C6_FailureLeavesNoDocument ==
  /\ [][/\ pc = "links"
        /\ \E i \in 1..Len(soup.anchors) : urlparse_raises(soup.anchors[i].href)
        => console' = Append(console, Error(url, "links"))]_vars
  /\ [](\A e \in Errors :
          \A i \in 1..Len(markdown_content) :
            markdown_content[i].url # console[e].url)

\* C7 as stated: while a page is rendered, extracted or converted its key
\* is not yet in visited.
C7_NotVisitedWhileProcessing ==
  pc \in { "goto", "parse" } => normalize_url(url) \notin visited

\* C7 as amended: a key enters visited exactly once, at the step that takes
\* its URL from the queue, before the render starts; while the page is
\* rendered, extracted, converted or its links pushed the key is in visited.
C7_VisitedAtPop ==
  /\ [](pc \in { "goto", "parse", "links" } => normalize_url(url) \in visited)
  /\ [][visited' # visited =>
          /\ pc = "loop" /\ pc' = "goto"
          /\ normalize_url(Head(queue)) \notin visited
          /\ visited' = visited \cup { normalize_url(Head(queue)) }]_vars

\* the second page is being rendered and its key is already in visited
C7_Witness ==
  /\ pc = "goto"
  /\ Len(processed) = 2
  /\ normalize_url(url) \in visited

\* C8: once the loop has started, the queue is eventually empty and the
\* output is written, whichever pages fail; crawl() is left early only
\* when the browser does not start.
C8_Terminates ==
  /\ (pc = "loop") ~> (pc = "done" /\ queue = << >> /\ Len(output_file) = 1)
  /\ [](pc = "aborted" => processed = << >>)

\* a run that ended although two pages failed
C8_Witness ==
  /\ pc = "done"
  /\ Len(output_file) = 1
  /\ Len(processed) >= 3
  /\ Cardinality(Errors) >= 2

C10_AllAnchorsDiscovered ==
  [][pc = "parse" /\ pc' = "links" =>
       Resolved(find_all_a(soup')) = Resolved(find_all_a(soup))]_vars

\* the PageDocuments recorded for the page u
DocumentsOf(u) == { j \in 1..Len(markdown_content) : markdown_content[j].url = u }

\* the page u has been popped and its iteration is over
Finished(u) == u \in Range(processed) /\ u # url

\* C11 as stated: every page whose iteration ended without an error report,
\* a page whose document has no main, article or body included, has exactly
\* one PageDocument, and the region is the first of main, article, body that
\* the document has.
C11_EveryPageYieldsDocument ==
  /\ \A i \in 1..Len(processed) :
       (Finished(processed[i])
          /\ \A e \in Errors : console[e].url # processed[i])
       => Cardinality(DocumentsOf(processed[i])) = 1
  /\ pc = "links" =>
       /\ "main" \in soup.tags => main_content = "main"
       /\ ("main" \notin soup.tags /\ "article" \in soup.tags)
            => main_content = "article"

\* C11 amended: an extraction that does not raise appends exactly one
\* PageDocument when the document has a main, article or body, and appends
\* nothing and reports nothing when it has none of them; no other step adds a
\* PageDocument and no page has two; the region is the first of main,
\* article, body that the document has.
C11_RegionPagesYieldDocument ==
  /\ [][ (pc = "parse" /\ pc' = "links") =>
           IF soup.tags # { }
           THEN markdown_content' = Append(markdown_content, PageDocument(url))
           ELSE markdown_content' = markdown_content /\ console' = console ]_vars
  /\ [][ pc # "parse" => markdown_content' = markdown_content ]_vars
  /\ [](\A u \in Range(processed) : Cardinality(DocumentsOf(u)) <= 1)
  /\ [](pc = "links" =>
         /\ main_content \in soup.tags \cup { "none" }
         /\ "main" \in soup.tags => main_content = "main"
         /\ ("main" \notin soup.tags /\ "article" \in soup.tags)
              => main_content = "article"
         /\ soup.tags # { } => main_content # "none")

\* a document with no main, article or body went through the extraction and
\* left no PageDocument and no report
C11_Witness ==
  /\ pc = "links"
  /\ soup.tags = { }
  /\ main_content = "none"
  /\ markdown_content = << >>
  /\ Errors = { }

\* the blocks of a written text, the separating newlines left out
Blocks(text) ==
  LET kept == SelectSeq(text, LAMBDA t : t.kind = "block")
  IN [ j \in 1..Len(kept) |-> kept[j].of ]

\* the pages of the PageDocuments, in the order of markdown_content
DocumentPages == [ j \in 1..Len(markdown_content) |-> markdown_content[j].url ]

\* C12: the output is written at most once and exactly once by the end of
\* the run, only when the queue is empty; what is written holds the
\* PageDocuments one block each, in the order of markdown_content, which is
\* the order in which the pages were processed, no page twice; and
\* markdown_content only ever grows at its end.
C12_OutputOnceInOrder ==
  /\ [](Len(output_file) <= 1)
  /\ [](pc = "done" => Len(output_file) = 1)
  /\ [][ output_file' # output_file =>
           /\ queue = << >>
           /\ Len(output_file') = 1
           /\ Blocks(output_file'[1]) = markdown_content
           /\ Len(output_file'[1]) =
                IF markdown_content = << >> THEN 0
                ELSE 2 * Len(markdown_content) - 1 ]_vars
  /\ [](Len(output_file) = 1 => Blocks(output_file[1]) = markdown_content)
  /\ [](IsSubsequence(DocumentPages, processed))
  /\ [](\A i, j \in 1..Len(markdown_content) :
          markdown_content[i].url = markdown_content[j].url => i = j)
  /\ [][ /\ Len(markdown_content') >= Len(markdown_content)
         /\ SubSeq(markdown_content', 1, Len(markdown_content))
              = markdown_content ]_vars

\* the file has been written after two pages left a PageDocument and a third
\* page, processed between them or after, left none
C12_Witness ==
  /\ pc = "done"
  /\ Len(output_file) = 1
  /\ Len(markdown_content) = 2
  /\ Len(processed) = 3

\* C13: normalize_url returns a string for every string; applied to a key
\* it returned it returns that key; u, u followed by '/', and u followed by
\* a fragment have one key; "https://a/b", "https://a/b/" and
\* "https://a/b#frag" have the key "https://a/b".
C13_NormalizeIdempotent ==
  /\ pc \in { "return", "again" } => DOMAIN ret = 1..Len(ret)
  /\ pc = "again" => ret = arg
  /\ pc = "return" =>
       /\ normalize_url(arg \o << "/" >>) = ret
       /\ normalize_url(arg \o << "#", "frag" >>) = ret
       /\ arg \in NormalizeExamples => ret = NormalizedExample

\* the key of "https://a/b#frag" was normalized again and stayed
\* "https://a/b"
C13_Witness ==
  /\ pc = "again"
  /\ arg = NormalizedExample
  /\ ret = NormalizedExample

\* what stands before the first '#' of s
FragmentFree(s) ==
  LET hashes == { i \in 1..Len(s) : s[i] = "#" }
  IN IF hashes = { } THEN s
     ELSE SubSeq(s, 1, (CHOOSE i \in hashes : \A j \in hashes : i <= j) - 1)

\* C14 as stated: normalize_url returns the part before the first '#' less
\* exactly one trailing '/', if it has one.
C14_StripsOneSlash ==
  pc = "return" =>
    LET f == FragmentFree(arg)
    IN ret = IF f # << >> /\ f[Len(f)] = "/" THEN SubSeq(f, 1, Len(f) - 1)
             ELSE f

\* C14 amended: normalize_url returns the part before the first '#' less
\* all of its trailing '/': the result starts the fragment-free part, does
\* not end in '/', and what it leaves out of the fragment-free part is
\* slashes only.
C14_StripsAllSlashes ==
  pc = "return" =>
    LET f == FragmentFree(arg)
    IN /\ Len(ret) <= Len(f)
       /\ ret = SubSeq(f, 1, Len(ret))
       /\ ret = << >> \/ ret[Len(ret)] # "/"
       /\ \A i \in (Len(ret) + 1)..Len(f) : f[i] = "/"

\* a fragment-free part ending in two slashes lost both
C14_Witness ==
  /\ pc = "return"
  /\ arg = << "a", "/", "/", "#" >>
  /\ ret = << "a" >>

\* the maximal runs of equal characters of s, in order
RECURSIVE Runs(_)
Runs(s) ==
  IF s = << >> THEN << >>
  ELSE LET n == LeadingRun(s, Head(s))
       IN << [ ch |-> Head(s), n |-> n ] >> \o Runs(SubSeq(s, n + 1, Len(s)))

\* a run of n line breaks between two pieces of text is n - 1 blank lines
BlankLines(n) == n - 1

\* C15 as stated: re.sub leaves the text alone, turns every run of three or
\* more blank lines between text into one blank line, and leaves runs of
\* one and of two blank lines unchanged.
C15_CollapsesThreeBlankLines ==
  pc = "return" =>
    LET before == Runs(arg)
        after == Runs(ret)
    IN /\ Len(after) = Len(before)
       /\ \A i \in 1..Len(before) :
            /\ after[i].ch = before[i].ch
            /\ before[i].ch = "x" => after[i].n = before[i].n
            /\ (before[i].ch = "\n" /\ 1 < i /\ i < Len(before)) =>
                 IF BlankLines(before[i].n) >= 3
                 THEN BlankLines(after[i].n) = 1
                 ELSE after[i].n = before[i].n

\* C15 amended: re.sub leaves the text alone and cuts every run of three or
\* more line breaks to two, so that between text every run of two or more
\* blank lines becomes one blank line and a single blank line or a lone line
\* break stays as it is.
C15_CollapsesTwoBlankLines ==
  pc = "return" =>
    LET before == Runs(arg)
        after == Runs(ret)
    IN /\ Len(after) = Len(before)
       /\ \A i \in 1..Len(before) :
            /\ after[i].ch = before[i].ch
            /\ before[i].ch = "x" => after[i].n = before[i].n
            /\ before[i].ch = "\n" =>
                 after[i].n = IF before[i].n >= 3 THEN 2 ELSE before[i].n
            /\ (before[i].ch = "\n" /\ 1 < i /\ i < Len(before)) =>
                 IF BlankLines(before[i].n) >= 2
                 THEN BlankLines(after[i].n) = 1
                 ELSE after[i].n = before[i].n

\* two blank lines between two characters of text became one
C15_Witness ==
  /\ pc = "return"
  /\ arg = << "x", "\n", "\n", "\n", "x" >>
  /\ ret = << "x", "\n", "\n", "x" >>

\* C16: when the browser does not start the run is over with the seed still
\* in the queue, nothing visited, nothing processed, no PageDocument and no
\* file written, and nothing happens afterwards.
C16_StartupFailureAborts ==
  /\ [](pc = "aborted" =>
         /\ queue = << start_url >>
         /\ visited = { }
         /\ processed = << >>
         /\ markdown_content = << >>
         /\ output_file = << >>)
  /\ [][ pc = "aborted" => pc' = "aborted" ]_vars

\* the browser did not start
C16_Witness ==
  /\ pc = "aborted"
  /\ queue = << start_url >>
  /\ console = << >>

\* the normalized keys of the URLs in the queue
QueuedKeys == { normalize_url(queue[i]) : i \in 1..Len(queue) }

\* C17: before the loop and between two iterations, seen_urls is the union
\* of visited and the keys of the queued URLs, and no two queued URLs have
\* one key; no URL enqueued after the seed is a spelling of the seed's page.
C17_SeenIsVisitedPlusQueued ==
  /\ pc \in { "start", "loop" } =>
       /\ seen_urls = visited \cup QueuedKeys
       /\ \A i, j \in 1..Len(queue) :
            PageOf(queue[i]) = PageOf(queue[j]) => i = j
  /\ \A i \in 2..Len(enqueued) : PageOf(enqueued[i]) # PageOf(start_url)

\* between two iterations, two pages visited and two queued
C17_Witness ==
  /\ pc = "loop"
  /\ Cardinality(visited) = 2
  /\ Len(queue) = 2
  /\ Cardinality(seen_urls) = 4

\* C18: the URL at the head of the queue never has its key in visited when
\* an iteration starts, so every pop goes on to process the URL it popped;
\* and a key that is not in seen_urls is not in visited.
C18_DiscardNeverTaken ==
  /\ []((pc = "loop" /\ queue # << >>)
          => normalize_url(Head(queue)) \notin visited)
  /\ [][ (pc = "loop" /\ queue # << >>) =>
           /\ pc' = "goto"
           /\ url' = Head(queue)
           /\ processed' = Append(processed, Head(queue)) ]_vars
  /\ [](\A u \in Hrefs \cup Pages :
          normalize_url(u) \notin seen_urls => normalize_url(u) \notin visited)

\* a URL was popped and is being processed while three keys are visited
\* and another URL waits
C18_Witness ==
  /\ pc = "goto"
  /\ Cardinality(visited) = 3
  /\ Len(queue) = 1

\* C19: once the loop runs, the run ends with the queue empty and visited
\* equal to seen_urls; at the end every URL ever enqueued has its key in
\* visited, the total reported is the number of distinct pages ever
\* enqueued, and there are at most that many PageDocuments.
C19_AllEnqueuedVisited ==
  /\ (pc = "loop") ~> (pc = "done" /\ queue = << >> /\ visited = seen_urls)
  /\ [](pc = "done" =>
         /\ \A i \in 1..Len(enqueued) : normalize_url(enqueued[i]) \in visited
         /\ console[Len(console)].kind = "total"
         /\ console[Len(console)].n =
              Cardinality({ PageOf(enqueued[i]) : i \in 1..Len(enqueued) })
         /\ Len(markdown_content) <= console[Len(console)].n)

\* the run ended with three pages enqueued and visited and one PageDocument
C19_Witness ==
  /\ pc = "done"
  /\ Len(enqueued) = 3
  /\ visited = seen_urls
  /\ Cardinality(visited) = 3
  /\ Len(markdown_content) = 1

====
